---- MODULE Spec2Model ----
(***************************************************************************)
(* Model of the firmware resolution core of notecard-mcp                   *)
(* (src/src/firmware.ts): compareVersions, extractKeysFromXml,             *)
(* extractAvailableVersions, listAvailableFirmwareVersions and             *)
(* findFirmwareUrl.                                                        *)
(*                                                                         *)
(* Strings the code inspects character by character (object keys, version  *)
(* strings) are sequences of one-character strings.  The bucket listing    *)
(* payload is a sequence whose elements are such characters, the line      *)
(* break, and the XML tags, each tag being one element.                    *)
(***************************************************************************)
EXTENDS Integers, Sequences, FiniteSets, TLC

VARIABLES pc, op, req, fetches, fetched, listing, xml, result,
          pin, pout, calls, tool, schema, ports

vars == <<pc, op, req, fetches, fetched, listing, xml, result,
          pin, pout, calls, tool, schema, ports>>

\* the state of one call of an exported operation of firmware.ts
coreVars == <<pc, op, req, fetches, fetched, listing, xml, result>>

\* the state of the modules around the resolver
auxVars == <<schema, ports>>

(***************************************************************************)
(* Bounds of the model.                                                    *)
(***************************************************************************)
MaxKeys == 2
MaxParts == 2
MaxXml == 4
MaxPieces == 3
MaxCalls == 2
MaxCallers == 2
MaxInits == 2
MaxFinds == 2

(***************************************************************************)
(* Generic string helpers (JavaScript String.prototype semantics).         *)
(***************************************************************************)
Digits == {"0", "1", "2", "3", "4", "5", "6", "7", "8", "9"}

DigitVal(c) ==
  CASE c = "0" -> 0 [] c = "1" -> 1 [] c = "2" -> 2 [] c = "3" -> 3
    [] c = "4" -> 4 [] c = "5" -> 5 [] c = "6" -> 6 [] c = "7" -> 7
    [] c = "8" -> 8 [] c = "9" -> 9

\* variant: the length of the first operand only
Max_FirstOperand(a, b) == a

\* Math.max
Max(a, b) == IF a >= b THEN a ELSE b

\* s.startsWith(t, i) with a 1-based position i
MatchesAt(s, t, i) ==
  /\ i >= 1
  /\ i + Len(t) - 1 <= Len(s)
  /\ \A k \in 1..Len(t) : s[i + k - 1] = t[k]

\* s.includes(t)
Includes(s, t) == \E i \in 1..(Len(s) - Len(t) + 1) : MatchesAt(s, t, i)

\* s.endsWith(t)
EndsWith(s, t) == Len(t) <= Len(s) /\ MatchesAt(s, t, Len(s) - Len(t) + 1)

RECURSIVE Split(_, _)
\* s.split(sep) for a one-character separator
Split(s, sep) ==
  IF \A i \in 1..Len(s) : s[i] # sep THEN <<s>>
  ELSE LET i == CHOOSE k \in 1..Len(s) :
                  s[k] = sep /\ \A m \in 1..(k - 1) : s[m] # sep
       IN  <<SubSeq(s, 1, i - 1)>> \o Split(SubSeq(s, i + 1, Len(s)), sep)

RECURSIVE DigitsToNat(_, _)
DigitsToNat(s, acc) ==
  IF s = <<>> THEN acc
  ELSE DigitsToNat(Tail(s), acc * 10 + DigitVal(Head(s)))

\* variant: only the leading digit counts, as when strings are compared
NumberOrZero_LeadingDigit(s) ==
  IF s # <<>> /\ s[1] \in Digits THEN DigitVal(s[1]) ELSE 0

\* Number(s) || 0 : the empty string converts to 0, a string that is not
\* a decimal numeral converts to NaN, and NaN || 0 is 0.
NumberOrZero(s) ==
  IF \A i \in 1..Len(s) : s[i] \in Digits THEN DigitsToNat(s, 0) ELSE 0

(***************************************************************************)
(* compareVersions (firmware.ts 2-13)                                      *)
(***************************************************************************)
\* parts[i] || 0 : a missing component (undefined) is 0
PartAt(parts, i) == IF i <= Len(parts) THEN NumberOrZero(parts[i]) ELSE 0

RECURSIVE compareFrom(_, _, _, _)
compareFrom(parts1, parts2, i, len) ==
  IF i > len THEN 0
  ELSE IF PartAt(parts1, i) > PartAt(parts2, i) THEN 1
  ELSE IF PartAt(parts1, i) < PartAt(parts2, i) THEN -1
  ELSE compareFrom(parts1, parts2, i + 1, len)

compareVersions(v1, v2) ==
  LET parts1 == Split(v1, ".")
      parts2 == Split(v2, ".")
  IN  compareFrom(parts1, parts2, 1, Max(Len(parts1), Len(parts2)))

(***************************************************************************)
(* extractKeysFromXml (firmware.ts 16-24)                                  *)
(* keyRegex = /<Key>(.*?)<\/Key>/g ; "." does not match a line break.       *)
(***************************************************************************)
KeyOpen  == "<Key>"
KeyClose == "</Key>"
LineBreak == "\n"

\* One keyRegex.exec from lastIndex: the leftmost opening tag that is
\* followed by a closing tag with no line break in between; the lazy
\* group ends at the first such closing tag.  0 when no match.
ExecOpen(s, lastIndex) ==
  LET Closes(i) == {j \in (i + 1)..Len(s) :
                      /\ s[j] = KeyClose
                      /\ \A m \in (i + 1)..(j - 1) :
                            s[m] # KeyClose /\ s[m] # LineBreak}
      Opens == {i \in lastIndex..Len(s) : s[i] = KeyOpen /\ Closes(i) # {}}
  IN  IF Opens = {} THEN 0
      ELSE CHOOSE i \in Opens : \A k \in Opens : i <= k

ExecClose(s, i) ==
  CHOOSE j \in (i + 1)..Len(s) :
    s[j] = KeyClose /\ \A m \in (i + 1)..(j - 1) : s[m] # KeyClose

RECURSIVE ExecLoop(_, _, _)
ExecLoop(s, lastIndex, keys) ==
  LET i == ExecOpen(s, lastIndex)
  IN  IF i = 0 THEN keys
      ELSE LET j == ExecClose(s, i)
           IN  ExecLoop(s, j + 1, Append(keys, SubSeq(s, i + 1, j - 1)))

extractKeysFromXml(xmlString) == ExecLoop(xmlString, 1, <<>>)

(***************************************************************************)
(* versionRegex = /-(\d+\.\d+\.\d+\.\d+)\.(?:bin|dfu)/                      *)
(* (firmware.ts 29 and 149)                                                *)
(***************************************************************************)
RECURSIVE DigitRunEnd(_, _)
\* position just after the maximal run of digits starting at i
DigitRunEnd(s, i) ==
  IF i <= Len(s) /\ s[i] \in Digits THEN DigitRunEnd(s, i + 1) ELSE i

RECURSIVE NumberGroups(_, _, _)
\* n digit runs, each followed by a dot, starting at i: the position just
\* after the last dot, or 0 when the text does not have that shape
NumberGroups(s, i, n) ==
  LET e == DigitRunEnd(s, i)
  IN  IF e = i \/ e > Len(s) \/ s[e] # "." THEN 0
      ELSE IF n = 1 THEN e + 1
      ELSE NumberGroups(s, e + 1, n - 1)

\* variant: whatever follows the four numbers is accepted
VersionRegexAt_AnySuffix(s, i) ==
  IF i > Len(s) \/ s[i] # "-" THEN 0 ELSE NumberGroups(s, i + 1, 4)

\* the regex anchored at the dash in position i: the position just after
\* the dot that closes the fourth number, or 0
VersionRegexAt(s, i) ==
  IF i > Len(s) \/ s[i] # "-" THEN 0
  ELSE LET e == NumberGroups(s, i + 1, 4)
       IN  IF e = 0 THEN 0
           ELSE IF MatchesAt(s, <<"b", "i", "n">>, e)
                   \/ MatchesAt(s, <<"d", "f", "u">>, e) THEN e
           ELSE 0

NoMatch == <<"null">>

\* key.match(versionRegex): capture group 1 of the leftmost match
versionMatch(key) ==
  LET Starts == {i \in 1..Len(key) : VersionRegexAt(key, i) # 0}
  IN  IF Starts = {} THEN NoMatch
      ELSE LET i == CHOOSE k \in Starts : \A m \in Starts : k <= m
           IN  SubSeq(key, i + 1, VersionRegexAt(key, i) - 2)


(***************************************************************************)
(* extractAvailableVersions (firmware.ts 27-38)                            *)
(* A Set<string> keeps insertion order and compares members as strings.    *)
(***************************************************************************)
SetAdd(members, v) ==
  IF \E i \in 1..Len(members) : members[i] = v THEN members
  ELSE Append(members, v)

RECURSIVE extractLoop(_, _)
extractLoop(keys, availableVersions) ==
  IF keys = <<>> THEN availableVersions
  ELSE LET m == versionMatch(Head(keys))
       IN  extractLoop(Tail(keys),
                       IF m # NoMatch THEN SetAdd(availableVersions, m)
                       ELSE availableVersions)

extractAvailableVersions(relevantKeys) == extractLoop(relevantKeys, <<>>)

(***************************************************************************)
(* Values shared by the two exported operations.                           *)
(***************************************************************************)
Null   == <<"null">>
Latest == <<"l", "a", "t", "e", "s", "t">>
DotBin == <<".", "b", "i", "n">>
DotDfu == <<".", "d", "f", "u">>
ZeroVersion == <<"0", ".", "0", ".", "0", ".", "0">>
ArtifactHost == "https://notecard-firmware.s3.amazonaws.com"

\* `-${notecardType}-`
TypeToken(notecardType) == <<"-">> \o notecardType \o <<"-">>

RECURSIVE FilterSeq(_, _)
FilterSeq(keys, token) ==
  IF keys = <<>> THEN <<>>
  ELSE IF Includes(Head(keys), token)
       THEN <<Head(keys)>> \o FilterSeq(Tail(keys), token)
       ELSE FilterSeq(Tail(keys), token)

\* variant: every key of the listing is kept
relevantKeysOf_Unfiltered(allKeys, notecardType) == allKeys

\* allKeys.filter(key => key.includes(`-${notecardType}-`))
relevantKeysOf(allKeys, notecardType) ==
  FilterSeq(allKeys, TypeToken(notecardType))

NoResult ==
  [kind |-> "none", url |-> <<>>, versions |-> <<>>,
   wrapper |-> "", cause |-> "", detail |-> <<>>]

ReturnUrl(u)       == [NoResult EXCEPT !.kind = "url", !.url = u]
ReturnNull         == [NoResult EXCEPT !.kind = "null"]
ReturnVersions(vs) == [NoResult EXCEPT !.kind = "versions", !.versions = vs]
\* throw new Error(`${wrapper}: ${cause} ... ${detail}`)
Throw(w, c, d) ==
  [NoResult EXCEPT !.kind = "error", !.wrapper = w, !.cause = c, !.detail = d]

FindWrapper == "Could not find firmware"
ListWrapper == "Could not list firmware versions"

(***************************************************************************)
(* findFirmwareUrl, the selection loop (firmware.ts 147-170)               *)
(***************************************************************************)
\* line 161: the equal-version branch of the 'latest' scan
LatestTieReplaces(selectedKey, key) ==
  /\ selectedKey # Null
  /\ ~EndsWith(key, DotBin)
  /\ EndsWith(selectedKey, DotDfu)

\* variant: the first matching key is kept whatever comes later
SpecificReplaces_FirstMatchKept(selectedKey, key) == selectedKey = Null

\* line 165: the condition under which a matching key becomes selectedKey
SpecificReplaces(selectedKey, key) ==
  \/ selectedKey = Null
  \/ (selectedKey # Null /\ ~EndsWith(selectedKey, DotBin)
        /\ EndsWith(key, DotBin))
  \/ EndsWith(key, DotBin)

\* line 164: keyVersion === versionToUse
VersionMatches(keyVersion, versionToUse) == keyVersion = versionToUse

InitialScan == [selectedKey |-> Null, latestVersion |-> ZeroVersion]

\* one iteration of the for loop of lines 151-170
ScanStep(st, key, versionToUse) ==
  LET keyVersion == versionMatch(key)
  IN  IF keyVersion = NoMatch THEN st
      ELSE IF versionToUse = Latest
      THEN IF compareVersions(keyVersion, st.latestVersion) > 0
           THEN [selectedKey |-> key, latestVersion |-> keyVersion]
           ELSE IF /\ compareVersions(keyVersion, st.latestVersion) = 0
                   /\ LatestTieReplaces(st.selectedKey, key)
                THEN [st EXCEPT !.selectedKey = key]
                ELSE st
      ELSE IF /\ VersionMatches(keyVersion, versionToUse)
              /\ SpecificReplaces(st.selectedKey, key)
           THEN [st EXCEPT !.selectedKey = key]
           ELSE st

RECURSIVE ScanKeys(_, _, _)
\* the state of the loop after the first n keys
ScanKeys(relevantKeys, n, versionToUse) ==
  IF n = 0 THEN InitialScan
  ELSE ScanStep(ScanKeys(relevantKeys, n - 1, versionToUse),
                relevantKeys[n], versionToUse)

(***************************************************************************)
(* findFirmwareUrl, after the listing has been fetched (firmware.ts        *)
(* 126-206)                                                                *)
(***************************************************************************)
\* variant: the empty filter result is not detected
NoRelevantKeys_Unchecked(relevantKeys) == FALSE

\* line 138: no key of the listing is for this Notecard type
NoRelevantKeys(relevantKeys) == Len(relevantKeys) = 0

\* line 175: the up-to-date test
UpToDateCheck(versionToUse, currentVersion, latestVersion) ==
  /\ versionToUse = Latest
  /\ currentVersion # Null
  /\ compareVersions(currentVersion, latestVersion) >= 0

\* variant: the error does not carry the available versions
VersionNotFoundError_NoList(versionToUse, notecardType, availableVersions) ==
  Throw(FindWrapper, "Firmware version not found", <<>>)

\* line 182: the version-not-found error; detail is the list the message
\* joins after "Available:" ("None" when it is empty)
VersionNotFoundError(versionToUse, notecardType, availableVersions) ==
  Throw(FindWrapper, "Firmware version not found", availableVersions)

\* line 194
FirmwareUrlOf(selectedKey) == <<ArtifactHost, "/">> \o selectedKey

findFirmwareUrlBody(firmwareIndexXml, r) ==
  LET allKeys      == extractKeysFromXml(firmwareIndexXml)
      relevantKeys == relevantKeysOf(allKeys, r.notecardType)
      availableVersions == extractAvailableVersions(relevantKeys)
      scan == ScanKeys(relevantKeys, Len(relevantKeys), r.versionToUse)
  IN  IF Len(allKeys) = 0
      THEN Throw(FindWrapper, "No firmware files found in S3 XML", <<>>)
      ELSE IF NoRelevantKeys(relevantKeys)
      THEN Throw(FindWrapper, "No firmware files found for Notecard type", <<>>)
      ELSE IF UpToDateCheck(r.versionToUse, r.currentVersion, scan.latestVersion)
      THEN ReturnNull
      ELSE IF r.versionToUse # Latest /\ scan.selectedKey = Null
      THEN VersionNotFoundError(r.versionToUse, r.notecardType, availableVersions)
      ELSE IF r.versionToUse = Latest /\ scan.selectedKey = Null
      THEN Throw(FindWrapper, "Could not find any valid firmware versions",
                 availableVersions)
      ELSE IF scan.selectedKey # Null
      THEN ReturnUrl(FirmwareUrlOf(scan.selectedKey))
      ELSE Throw(FindWrapper, "Could not determine appropriate firmware key", <<>>)

(***************************************************************************)
(* listAvailableFirmwareVersions, after the listing has been fetched       *)
(* (firmware.ts 56-74)                                                     *)
(***************************************************************************)
listAvailableFirmwareVersionsBody(firmwareIndexXml, r) ==
  LET allKeys      == extractKeysFromXml(firmwareIndexXml)
      relevantKeys == relevantKeysOf(allKeys, r.notecardType)
  IN  IF Len(allKeys) = 0 THEN ReturnVersions(<<>>)
      ELSE IF Len(relevantKeys) = 0 THEN ReturnVersions(<<>>)
      ELSE ReturnVersions(extractAvailableVersions(relevantKeys))

\* variant: the status detail is lost when the error is wrapped
FetchFailureError_NoDetail(wrapper, outcome) ==
  Throw(wrapper, "Failed to fetch firmware index", <<>>)

\* lines 49-54, 76-80 and 119-124, 202-206: a failed fetch becomes the
\* wrapped error; detail is the status code, or the transport's message
FetchFailureError(wrapper, outcome) ==
  IF outcome.kind = "http"
  THEN Throw(wrapper, "Failed to fetch firmware index", <<outcome.detail>>)
  ELSE Throw(wrapper, "transport", <<outcome.detail>>)

(***************************************************************************)
(* The environment: requests and bucket listings.                          *)
(***************************************************************************)
U5 == <<"u", "5">>
WL == <<"w", "l">>

V_1_2_0_9  == <<"1", ".", "2", ".", "0", ".", "9">>
V_1_2_0_10 == <<"1", ".", "2", ".", "0", ".", "1", "0">>
V_1_2_0_09 == <<"1", ".", "2", ".", "0", ".", "0", "9">>
V_0_0_0    == <<"0", ".", "0", ".", "0">>
V_1_2_0    == <<"1", ".", "2", ".", "0">>
V_9_9_9_9  == <<"9", ".", "9", ".", "9", ".", "9">>

\* an object key "n-<type>-<version><suffix>"
KeyOf(type, version, suffix) ==
  <<"n", "-">> \o type \o <<"-">> \o version \o suffix

KeyCatalogue ==
  { KeyOf(U5, V_1_2_0_9,  DotBin), KeyOf(U5, V_1_2_0_9,  DotDfu),
    KeyOf(U5, V_1_2_0_10, DotBin), KeyOf(U5, V_1_2_0_10, DotDfu),
    KeyOf(U5, V_1_2_0_09, DotDfu),
    KeyOf(U5, ZeroVersion, DotBin),
    KeyOf(U5, V_1_2_0, DotBin),
    KeyOf(WL, V_1_2_0_10, DotBin) }

Listings == UNION {[1..n -> KeyCatalogue] : n \in 0..MaxKeys}

RECURSIVE Contents(_)
Contents(keys) ==
  IF keys = <<>> THEN <<>>
  ELSE <<"<Contents>", KeyOpen>> \o Head(keys) \o <<KeyClose, "</Contents>">>
         \o Contents(Tail(keys))

\* the ListBucketResult document the storage service answers with
XmlOf(keys) ==
  <<"<?xml?>", LineBreak, "<ListBucketResult>">> \o Contents(keys)
    \o <<"</ListBucketResult>">>

\* a fetch that does not produce a listing: a non-success status, or a
\* rejected promise (transport error)
FetchFailures ==
  { [kind |-> "http",      detail |-> <<"4", "0", "3">>],
    [kind |-> "http",      detail |-> <<"5", "0", "3">>],
    [kind |-> "transport", detail |-> <<"f", "a", "i", "l">>] }

Channels         == {"LTS", "DevRel", "nightly"}
NotecardTypes    == {U5, WL}
VersionsToUse    == {Latest, V_1_2_0_9, V_1_2_0_10, V_1_2_0_09, V_0_0_0, V_9_9_9_9}
CurrentVersions  == {Null, V_1_2_0_9, V_1_2_0_10}

NotFetched == [kind |-> "no", detail |-> <<>>]
FetchedOk  == [kind |-> "ok", detail |-> <<>>]

NoReq ==
  [updateType |-> "", notecardType |-> <<>>, versionToUse |-> <<>>,
   currentVersion |-> Null]

(***************************************************************************)
(* The state machine: one call of an exported operation at a time.         *)
(*   pc      "idle", "fetching" (suspended at the await), "done"           *)
(*   op      the operation called                                          *)
(*   req     its arguments                                                 *)
(*   fetches the number of listing fetches the call has issued             *)
(*   fetched how the fetch ended: kind "no", "ok", "http", "transport"     *)
(*   listing the keys in the bucket when the fetch was served              *)
(*   xml     the payload the fetch produced                                *)
(*   result  what the call returned or threw                               *)
(* The other variables belong to the other specifications of this module   *)
(* and stay as they start:                                                 *)
(*   pin, pout  the argument and the value of a helper applied on its own  *)
(*   calls      the calls in flight when several run concurrently          *)
(*   tool       the tool handler of index.ts that is running               *)
(*   schema     the request validator: its module state and its callers    *)
(*   ports      the stored serial port and the tool calls that use it      *)
(***************************************************************************)
NotApplied == [done |-> FALSE, val |-> <<>>]
Applied(v) == [done |-> TRUE, val |-> v]
NoTool     == [name |-> "none"]

CoreIdle ==
  /\ pc = "idle"
  /\ op = "none"
  /\ req = NoReq
  /\ fetches = 0
  /\ fetched = NotFetched
  /\ listing = <<>>
  /\ xml = <<>>
  /\ result = NoResult

HelperIdle == pin = <<>> /\ pout = NotApplied

NoSchema == [name |-> "none"]
NoPorts  == [name |-> "none"]
AuxIdle  == schema = NoSchema /\ ports = NoPorts

Init == CoreIdle /\ HelperIdle /\ AuxIdle /\ calls = <<>> /\ tool = NoTool

\* findFirmwareUrl up to the await of line 119
CallFindFirmwareUrl ==
  /\ pc = "idle"
  /\ \E ut \in Channels, nt \in NotecardTypes,
        v \in VersionsToUse, cv \in CurrentVersions :
       req' = [updateType |-> ut, notecardType |-> nt,
               versionToUse |-> v, currentVersion |-> cv]
  /\ op' = "find"
  /\ pc' = "fetching"
  /\ fetches' = 1
  /\ fetched' = NotFetched
  /\ listing' = <<>>
  /\ xml' = <<>>
  /\ result' = NoResult
  /\ UNCHANGED <<pin, pout, calls, tool, auxVars>>

\* listAvailableFirmwareVersions up to the await of line 49
CallListAvailableFirmwareVersions ==
  /\ pc = "idle"
  /\ \E ut \in Channels, nt \in NotecardTypes :
       req' = [NoReq EXCEPT !.updateType = ut, !.notecardType = nt]
  /\ op' = "list"
  /\ pc' = "fetching"
  /\ fetches' = 1
  /\ fetched' = NotFetched
  /\ listing' = <<>>
  /\ xml' = <<>>
  /\ result' = NoResult
  /\ UNCHANGED <<pin, pout, calls, tool, auxVars>>

\* findFirmwareUrl from the resumption with the listing text to its return
\* or throw (lines 126-206)
FindFirmwareUrlResume ==
  /\ pc = "fetching" /\ op = "find"
  /\ \E keys \in Listings :
       /\ listing' = keys
       /\ xml' = XmlOf(keys)
       /\ result' = findFirmwareUrlBody(XmlOf(keys), req)
  /\ fetched' = FetchedOk
  /\ pc' = "done"
  /\ UNCHANGED <<op, req, fetches, pin, pout, calls, tool, auxVars>>

\* findFirmwareUrl when the fetch fails (lines 119-124, 202-206)
FindFirmwareUrlFetchFails ==
  /\ pc = "fetching" /\ op = "find"
  /\ \E outcome \in FetchFailures :
       /\ fetched' = outcome
       /\ result' = FetchFailureError(FindWrapper, outcome)
  /\ pc' = "done"
  /\ UNCHANGED <<op, req, fetches, listing, xml, pin, pout, calls, tool, auxVars>>

\* listAvailableFirmwareVersions from the resumption to its return
\* (lines 56-74)
ListResume ==
  /\ pc = "fetching" /\ op = "list"
  /\ \E keys \in Listings :
       /\ listing' = keys
       /\ xml' = XmlOf(keys)
       /\ result' = listAvailableFirmwareVersionsBody(XmlOf(keys), req)
  /\ fetched' = FetchedOk
  /\ pc' = "done"
  /\ UNCHANGED <<op, req, fetches, pin, pout, calls, tool, auxVars>>

\* listAvailableFirmwareVersions when the fetch fails (lines 49-54, 76-80)
ListFetchFails ==
  /\ pc = "fetching" /\ op = "list"
  /\ \E outcome \in FetchFailures :
       /\ fetched' = outcome
       /\ result' = FetchFailureError(ListWrapper, outcome)
  /\ pc' = "done"
  /\ UNCHANGED <<op, req, fetches, listing, xml, pin, pout, calls, tool, auxVars>>

\* the caller has taken the result; nothing of the call remains
CallEnds ==
  /\ pc = "done"
  /\ pc' = "idle"
  /\ op' = "none"
  /\ req' = NoReq
  /\ fetches' = 0
  /\ fetched' = NotFetched
  /\ listing' = <<>>
  /\ xml' = <<>>
  /\ result' = NoResult
  /\ UNCHANGED <<pin, pout, calls, tool, auxVars>>

Next ==
  \/ CallFindFirmwareUrl
  \/ CallListAvailableFirmwareVersions
  \/ FindFirmwareUrlResume
  \/ FindFirmwareUrlFetchFails
  \/ ListResume
  \/ ListFetchFails
  \/ CallEnds

Spec == Init /\ [][Next]_vars

TypeOK ==
  /\ pc \in {"idle", "fetching", "done"}
  /\ op \in {"none", "find", "list"}
  /\ fetches \in 0..1
  /\ fetched \in {NotFetched, FetchedOk} \cup FetchFailures
  /\ listing \in Listings
  /\ result.kind \in {"none", "url", "null", "versions", "error"}

(***************************************************************************)
(* Vocabulary of the properties.  These are stated over the bucket's keys  *)
(* (listing), the request and the result, independently of the filter and  *)
(* of the selection loop.                                                  *)
(***************************************************************************)
HasTypeToken(key, type) ==
  \E i \in 1..Len(key) :
    /\ i + Len(type) + 1 <= Len(key)
    /\ key[i] = "-"
    /\ SubSeq(key, i + 1, i + Len(type)) = type
    /\ key[i + Len(type) + 1] = "-"

\* positions of the listing whose key passes the hardware-type filter
FilteredIdx == {i \in 1..Len(listing) : HasTypeToken(listing[i], req.notecardType)}

\* ... and carries an extractable Version
VersionedIdx == {i \in FilteredIdx : versionMatch(listing[i]) # NoMatch}

VersionAt(i) == versionMatch(listing[i])

\* position i carries a maximum, under compareVersions, of the Versions
\* of the filtered keys
IsMaxIdx(i) ==
  /\ i \in VersionedIdx
  /\ \A j \in VersionedIdx : compareVersions(VersionAt(i), VersionAt(j)) >= 0

IsBinKey(key) == Len(key) >= 4 /\ SubSeq(key, Len(key) - 3, Len(key)) = DotBin
IsDfuKey(key) == Len(key) >= 4 /\ SubSeq(key, Len(key) - 3, Len(key)) = DotDfu

\* findFirmwareUrl has returned or thrown after a successful fetch
FindServed == pc = "done" /\ op = "find" /\ fetched.kind = "ok"

UrlFor(key) == <<ArtifactHost, "/">> \o key

\* the key a returned URL points at
UrlKey == SubSeq(result.url, 3, Len(result.url))

RECURSIVE KeysWithToken(_, _)
KeysWithToken(keys, type) ==
  IF keys = <<>> THEN <<>>
  ELSE (IF HasTypeToken(Head(keys), type) THEN <<Head(keys)>> ELSE <<>>)
         \o KeysWithToken(Tail(keys), type)

\* the filtered keys in listing order
FilteredKeys == KeysWithToken(listing, req.notecardType)

\* the selection loop takes the key's version for the requested one
ScanMatch(key, versionToUse) ==
  versionMatch(key) # NoMatch /\ versionMatch(key) = versionToUse

(***************************************************************************)
(* C1: with versionToUse = 'latest' and at least one filtered key carrying *)
(* a Version (0.0.0.0 included), the Version compared against              *)
(* currentVersion is the maximum of the filtered keys' Versions: the call  *)
(* returns null exactly when currentVersion is present and not lower than  *)
(* that maximum, and otherwise (in particular when currentVersion is       *)
(* absent) it returns the URL of a key carrying the maximum.               *)
(***************************************************************************)
C1_LatestPicksMaximum ==
  (FindServed /\ req.versionToUse = Latest /\ VersionedIdx # {}) =>
    LET max == VersionAt(CHOOSE i \in VersionedIdx : IsMaxIdx(i))
    IN  IF req.currentVersion # Null
           /\ compareVersions(req.currentVersion, max) >= 0
        THEN result.kind = "null"
        ELSE /\ result.kind = "url"
             /\ \E i \in VersionedIdx : IsMaxIdx(i) /\ result.url = UrlFor(listing[i])

(***************************************************************************)
(* C2: with versionToUse = 'latest' and no currentVersion, when the        *)
(* maximum Version is carried by a .bin key and by a .dfu key, the URL     *)
(* returned is the one of the .bin key, in either listing order.           *)
(***************************************************************************)
C2_LatestTiePrefersBin ==
  ( /\ FindServed /\ req.versionToUse = Latest /\ req.currentVersion = Null
    /\ \E i, j \in VersionedIdx :
         /\ IsMaxIdx(i) /\ IsMaxIdx(j)
         /\ IsBinKey(listing[i]) /\ IsDfuKey(listing[j]) ) =>
    (result.kind = "url" /\ IsBinKey(UrlKey))

(***************************************************************************)
(* C3: a call returns null (up to date) if and only if it is a             *)
(* findFirmwareUrl call for 'latest' with a currentVersion that is not     *)
(* lower than the maximum Version among the filtered keys; a call for a    *)
(* specific version never returns null.                                    *)
(***************************************************************************)
C3_UpToDateIff ==
  (pc = "done" /\ result.kind = "null") <=>
    ( /\ FindServed
      /\ req.versionToUse = Latest
      /\ req.currentVersion # Null
      /\ \E i \in VersionedIdx :
           IsMaxIdx(i) /\ compareVersions(req.currentVersion, VersionAt(i)) >= 0 )

C5_SpecificMatchIsStructural ==
  ( /\ FindServed /\ req.versionToUse # Latest
    /\ \E i \in VersionedIdx : compareVersions(VersionAt(i), req.versionToUse) = 0 ) =>
    /\ result.kind = "url"
    /\ \E i \in VersionedIdx :
         /\ compareVersions(VersionAt(i), req.versionToUse) = 0
         /\ result.url = UrlFor(listing[i])

(***************************************************************************)
(* C6: a specific version request that no filtered key carries (the        *)
(* filter having kept at least one key) fails with the version-not-found   *)
(* error, and the error lists exactly the Versions extractable from the    *)
(* filtered keys, the list listAvailableFirmwareVersions returns.          *)
(***************************************************************************)
C6_VersionNotFoundListsVersions ==
  ( /\ FindServed /\ req.versionToUse # Latest
    /\ FilteredIdx # {}
    /\ \A i \in VersionedIdx : compareVersions(VersionAt(i), req.versionToUse) # 0 ) =>
    /\ result.kind = "error"
    /\ result.cause = "Firmware version not found"
    /\ {result.detail[k] : k \in 1..Len(result.detail)}
         = {VersionAt(i) : i \in VersionedIdx}
    /\ result.detail = listAvailableFirmwareVersionsBody(xml, req).versions

C6_Witness ==
  /\ FindServed /\ req.versionToUse = V_9_9_9_9
  /\ Cardinality({VersionAt(i) : i \in VersionedIdx}) = 2
  /\ result.kind = "error" /\ Len(result.detail) = 2

(***************************************************************************)
(* C7: with versionToUse = 'latest', when filtered keys exist and none     *)
(* carries a Version, the call fails with the no-valid-versions error,     *)
(* whether currentVersion is absent or present.                            *)
(***************************************************************************)
C7_NoValidVersionsFound ==
  ( /\ FindServed /\ req.versionToUse = Latest
    /\ FilteredIdx # {} /\ VersionedIdx = {} ) =>
    /\ result.kind = "error"
    /\ result.cause = "Could not find any valid firmware versions"

(***************************************************************************)
(* C8: on a fetched listing with no key for the hardware type (the empty   *)
(* listing included) findFirmwareUrl fails, returning neither a URL nor    *)
(* null, for every request; listAvailableFirmwareVersions returns the      *)
(* empty list on the same listing.                                         *)
(***************************************************************************)
C8_NoArtifactsForHardwareType ==
  (pc = "done" /\ fetched.kind = "ok" /\ FilteredIdx = {}) =>
    /\ op = "find" =>
         /\ result.kind = "error"
         /\ result.cause \in {"No firmware files found in S3 XML",
                              "No firmware files found for Notecard type"}
         /\ result.url = <<>>
    /\ op = "list" => result = ReturnVersions(<<>>)
    /\ listAvailableFirmwareVersionsBody(xml, req) = ReturnVersions(<<>>)

\* keys of another hardware type only, 'latest' asked with a currentVersion
C8_Witness ==
  /\ FindServed /\ FilteredIdx = {} /\ Len(listing) > 0
  /\ req.versionToUse = Latest /\ req.currentVersion # Null
  /\ result.kind = "error"

(***************************************************************************)
(* C9: when the listing fetch fails, either operation ends with the        *)
(* wrapped fetch error carrying the status detail; nothing else is         *)
(* returned, no payload is parsed, and the call has issued one fetch.      *)
(***************************************************************************)
C9_FetchFailure ==
  /\ pc \in {"fetching", "done"} => fetches = 1
  /\ (pc = "done" /\ fetched.kind \in {"http", "transport"}) =>
       /\ result.kind = "error"
       /\ result.url = <<>> /\ result.versions = <<>>
       /\ result.wrapper = (IF op = "find" THEN FindWrapper ELSE ListWrapper)
       /\ fetched.kind = "http" => result.cause = "Failed to fetch firmware index"
       /\ result.detail = <<fetched.detail>>
       /\ xml = <<>> /\ listing = <<>>

C9_Witness ==
  /\ pc = "done" /\ op = "list" /\ fetched.kind = "http"
  /\ result.kind = "error" /\ result.detail = <<fetched.detail>>

(***************************************************************************)
(* C10: a returned URL is the artifact host, "/", and a key of the fetched *)
(* listing that contains the request's hardware-type token and carries an  *)
(* extractable Version.                                                    *)
(***************************************************************************)
C10_UrlOfFilteredKey ==
  (pc = "done" /\ result.kind = "url") =>
    /\ op = "find" /\ fetched.kind = "ok"
    /\ \E i \in VersionedIdx : result.url = UrlFor(listing[i])

\* a URL returned from a listing that also holds a key of another type
C10_Witness ==
  /\ FindServed /\ result.kind = "url"
  /\ \E i \in 1..Len(listing) : i \notin FilteredIdx
  /\ \E i \in VersionedIdx : result.url = UrlFor(listing[i])

(***************************************************************************)
(* compareVersions applied on its own.                                     *)
(* A version is drawn as a tuple of components, each with its spelling s   *)
(* and the number n it denotes, and handed over as the dotted string.      *)
(***************************************************************************)
P0  == [s |-> <<"0">>,      n |-> 0]
P9  == [s |-> <<"9">>,      n |-> 9]
P10 == [s |-> <<"1", "0">>, n |-> 10]
P09 == [s |-> <<"0", "9">>, n |-> 9]

Components == {P0, P9, P10, P09}

VersionTuples == UNION {[1..k -> Components] : k \in 1..MaxParts}

RECURSIVE Dotted(_)
\* the version string of a tuple of components
Dotted(t) ==
  IF Len(t) = 1 THEN t[1].s
  ELSE t[1].s \o <<".">> \o Dotted(Tail(t))

InitCompare ==
  /\ CoreIdle /\ AuxIdle /\ calls = <<>> /\ tool = NoTool
  /\ pin \in VersionTuples \X VersionTuples \X VersionTuples
  /\ pout = NotApplied

\* compareVersions called on each pair of the three versions
ApplyCompare ==
  /\ ~pout.done
  /\ LET a == Dotted(pin[1])
         b == Dotted(pin[2])
         c == Dotted(pin[3])
     IN  pout' = Applied([ab |-> compareVersions(a, b),
                          ba |-> compareVersions(b, a),
                          aa |-> compareVersions(a, a),
                          bc |-> compareVersions(b, c),
                          ac |-> compareVersions(a, c)])
  /\ UNCHANGED <<coreVars, pin, calls, tool, auxVars>>

NextCompare == ApplyCompare

SpecCompare == InitCompare /\ [][NextCompare]_vars

\* the number of component i of a tuple, 0 past its end
NumAt(t, i) == IF i <= Len(t) THEN t[i].n ELSE 0

\* the comparison of two tuples of numbers, the shorter one continued with
\* zeros, decided by the first position where they differ
Lexicographic(t, u) ==
  LET len  == IF Len(t) >= Len(u) THEN Len(t) ELSE Len(u)
      Diff == {i \in 1..len : NumAt(t, i) # NumAt(u, i)}
  IN  IF Diff = {} THEN 0
      ELSE LET k == CHOOSE i \in Diff : \A j \in Diff : i <= j
           IN  IF NumAt(t, k) > NumAt(u, k) THEN 1 ELSE -1

(***************************************************************************)
(* C11: compareVersions is a total order on versions: compare(a,b) =       *)
(* -compare(b,a), compare(a,a) = 0, compare(a,b) <= 0 and compare(b,c) <= 0*)
(* imply compare(a,c) <= 0, and every result is -1, 0 or 1.                *)
(***************************************************************************)
C11_CompareTotalOrder ==
  pout.done =>
    /\ pout.val.ab = 0 - pout.val.ba
    /\ pout.val.aa = 0
    /\ (pout.val.ab <= 0 /\ pout.val.bc <= 0) => pout.val.ac <= 0
    /\ {pout.val.ab, pout.val.ba, pout.val.aa, pout.val.bc, pout.val.ac}
         \subseteq {-1, 0, 1}

\* three versions of different lengths in strictly increasing order
C11_Witness ==
  /\ pout.done
  /\ Len(pin[1]) < Len(pin[2]) /\ Len(pin[3]) < Len(pin[2])
  /\ pout.val.ab = -1 /\ pout.val.bc = -1 /\ pout.val.ac = -1
  /\ pout.val.ba = 1

(***************************************************************************)
(* C12: compareVersions(a, b) is the lexicographic comparison of the two   *)
(* tuples of numbers, the shorter padded with zeros: components compare as *)
(* numbers (10 above 9), the first difference decides, and versions that   *)
(* differ only by trailing zero components compare equal.                  *)
(***************************************************************************)
C12_CompareIsLexicographic ==
  pout.done =>
    /\ pout.val.ab = Lexicographic(pin[1], pin[2])
    /\ pout.val.bc = Lexicographic(pin[2], pin[3])
    /\ pout.val.ac = Lexicographic(pin[1], pin[3])

\* a = x.10 above b = x.9 although "10" sorts below "9" as text, and a
\* above c = x, whose missing second component counts as 0
C12_Witness ==
  /\ pout.done
  /\ Len(pin[1]) = 2 /\ Len(pin[2]) = 2 /\ Len(pin[3]) = 1
  /\ pin[1][1] = pin[2][1]
  /\ pin[1][2].s = <<"1", "0">> /\ pin[2][2].s = <<"9">>
  /\ pout.val.ab = 1
  /\ pin[3][1].n = pin[1][1].n /\ pin[1][2].n # 0
  /\ pout.val.ac = 1

(***************************************************************************)
(* extractAvailableVersions applied on its own.                            *)
(* A key is drawn as a description: the character before the version, the *)
(* version's components and the text after them.                           *)
(***************************************************************************)
DotTxt    == <<".", "t", "x", "t">>
DotBinSig == <<".", "b", "i", "n", ".", "s", "i", "g">>

KeyDescriptions ==
  { [sep |-> "-", parts |-> <<P9, P0, P0, P9>>,      suffix |-> DotBin],
    [sep |-> "-", parts |-> <<P9, P0, P0, P9>>,      suffix |-> DotDfu],
    [sep |-> "-", parts |-> <<P9, P0, P0, P09>>,     suffix |-> DotBin],
    [sep |-> "-", parts |-> <<P9, P0, P0, P10>>,     suffix |-> DotBinSig],
    [sep |-> "-", parts |-> <<P9, P0, P0>>,          suffix |-> DotBin],
    [sep |-> "-", parts |-> <<P9, P0, P0, P9, P9>>,  suffix |-> DotDfu],
    [sep |-> "-", parts |-> <<P9, P0, P0, P10>>,     suffix |-> DotTxt],
    [sep |-> "_", parts |-> <<P0, P0, P0, P0>>,      suffix |-> DotBin] }

\* the object key "n-u5<sep><version><suffix>" a description stands for
KeyText(k) == <<"n", "-", "u", "5", k.sep>> \o Dotted(k.parts) \o k.suffix

RECURSIVE KeyTexts(_)
KeyTexts(ks) ==
  IF ks = <<>> THEN <<>> ELSE <<KeyText(Head(ks))>> \o KeyTexts(Tail(ks))

InitExtract ==
  /\ CoreIdle /\ AuxIdle /\ calls = <<>> /\ tool = NoTool
  /\ pin \in UNION {[1..n -> KeyDescriptions] : n \in 0..MaxKeys}
  /\ pout = NotApplied

ApplyExtract ==
  /\ ~pout.done
  /\ pout' = Applied(extractAvailableVersions(KeyTexts(pin)))
  /\ UNCHANGED <<coreVars, pin, calls, tool, auxVars>>

NextExtract == ApplyExtract

SpecExtract == InitExtract /\ [][NextExtract]_vars

\* the description is of a key holding "-<n>.<n>.<n>.<n>." followed by
\* bin or dfu
HasVersionPattern(k) ==
  /\ k.sep = "-"
  /\ Len(k.parts) = 4
  /\ Len(k.suffix) >= 4
  /\ SubSeq(k.suffix, 1, 4) \in {DotBin, DotDfu}

(***************************************************************************)
(* C13: extractAvailableVersions never returns two equal Versions: no two  *)
(* elements of its result compare as equal under compareVersions, whatever *)
(* digit strings spell the components.                                     *)
(***************************************************************************)
C13_ExtractNoEqualVersions ==
  pout.done =>
    \A i, j \in 1..Len(pout.val) :
      i # j => compareVersions(pout.val[i], pout.val[j]) # 0

(***************************************************************************)
(* C14: extractAvailableVersions returns a version exactly when some key   *)
(* holds "-<major>.<minor>.<patch>.<build>." with that version's four      *)
(* components, followed by bin or dfu; other keys contribute nothing, and  *)
(* with no such key the result is empty.                                   *)
(***************************************************************************)
C14_ExtractIffPattern ==
  pout.done =>
    /\ {pout.val[i] : i \in 1..Len(pout.val)}
         = {Dotted(pin[i].parts) : i \in {j \in 1..Len(pin) : HasVersionPattern(pin[j])}}
    /\ (\A i \in 1..Len(pin) : ~HasVersionPattern(pin[i])) => pout.val = <<>>

\* one key with the pattern and one without, one version returned
C14_Witness ==
  /\ pout.done
  /\ \E i, j \in 1..Len(pin) : HasVersionPattern(pin[i]) /\ ~HasVersionPattern(pin[j])
  /\ Len(pout.val) = 1

(***************************************************************************)
(* extractKeysFromXml applied on its own, to every payload of up to MaxXml *)
(* elements: the two Key tags, a character, a line break, another tag.     *)
(***************************************************************************)
XmlElements == {KeyOpen, KeyClose, "a", LineBreak, "<Size>"}

InitParse ==
  /\ CoreIdle /\ AuxIdle /\ calls = <<>> /\ tool = NoTool
  /\ pin \in UNION {[1..n -> XmlElements] : n \in 0..MaxXml}
  /\ pout = NotApplied

ApplyParse ==
  /\ ~pout.done
  /\ pout' = Applied(extractKeysFromXml(pin))
  /\ UNCHANGED <<coreVars, pin, calls, tool, auxVars>>

NextParse == ApplyParse

SpecParse == InitParse /\ [][NextParse]_vars

RECURSIVE Enclosed(_, _)
\* the texts between each opening marker and the next closing marker,
\* read from position pos on, pair after pair
Enclosed(s, pos) ==
  LET Pairs == {i \in pos..Len(s) :
                  s[i] = KeyOpen /\ \E j \in (i + 1)..Len(s) : s[j] = KeyClose}
  IN  IF Pairs = {} THEN <<>>
      ELSE LET i == CHOOSE k \in Pairs : \A m \in Pairs : k <= m
               j == CHOOSE k \in (i + 1)..Len(s) :
                      s[k] = KeyClose /\ \A m \in (i + 1)..(k - 1) : s[m] # KeyClose
           IN  <<SubSeq(s, i + 1, j - 1)>> \o Enclosed(s, j + 1)

(***************************************************************************)
(* C15: extractKeysFromXml returns exactly the texts enclosed between each *)
(* opening marker and the next closing marker, one per pair, in payload    *)
(* order with duplicates kept; with no marker pair it returns the empty    *)
(* sequence, whatever else the payload holds.                              *)
(***************************************************************************)
C15_ParseKeysEnclosedTexts ==
  pout.done =>
    /\ pout.val = Enclosed(pin, 1)
    /\ (~ \E i, j \in 1..Len(pin) : i < j /\ pin[i] = KeyOpen /\ pin[j] = KeyClose)
         => pout.val = <<>>

(***************************************************************************)
(* getNotecardTypeFromModel (firmware.ts 84-106)                           *)
(***************************************************************************)
S3 == <<"s", "3">>

\* variant: the "u5" entry is declared before the "" entry
notecardTypeMap_U5First ==
  << [key |-> U5,   modelSubstrings |-> << <<"N", "B">>, <<"M", "B">>, <<"W", "B">> >>],
     [key |-> <<>>, modelSubstrings |-> << <<"5", "0", "0">> >>],
     [key |-> WL,   modelSubstrings |-> << <<"L", "W">> >>],
     [key |-> S3,   modelSubstrings |-> << <<"E", "S", "P">> >>] >>

\* lines 86-91, in the order Object.entries yields the keys: none of them
\* is an integer-like key, so it is the order of declaration
notecardTypeMap ==
  << [key |-> <<>>, modelSubstrings |-> << <<"5", "0", "0">> >>],
     [key |-> U5,   modelSubstrings |-> << <<"N", "B">>, <<"M", "B">>, <<"W", "B">> >>],
     [key |-> WL,   modelSubstrings |-> << <<"L", "W">> >>],
     [key |-> S3,   modelSubstrings |-> << <<"E", "S", "P">> >>] >>

\* lines 98-102: some substring of the entry is included in the model
EntryMatches(entry, notecardModel) ==
  \E k \in 1..Len(entry.modelSubstrings) :
    Includes(notecardModel, entry.modelSubstrings[k])

RECURSIVE FirstEntry(_, _)
\* lines 97-105: the key of the first matching entry from entry i on
FirstEntry(notecardModel, i) ==
  IF i > Len(notecardTypeMap) THEN Null
  ELSE IF EntryMatches(notecardTypeMap[i], notecardModel)
       THEN notecardTypeMap[i].key
       ELSE FirstEntry(notecardModel, i + 1)

\* !notecardModel holds of null, undefined and ""
getNotecardTypeFromModel(notecardModel) ==
  IF notecardModel = Null \/ notecardModel = <<>> THEN Null
  ELSE FirstEntry(notecardModel, 1)

(***************************************************************************)
(* getNotecardTypeFromModel applied on its own, to null and to the model   *)
(* strings made of up to MaxPieces of these pieces.                        *)
(***************************************************************************)
ModelPieces ==
  { <<"N", "O", "T", "E", "-">>, <<"N", "B", "G", "L">>, <<"W", "B", "N", "A">>,
    <<"M", "B">>, <<"L", "W">>, <<"E", "S", "P", "3", "2">>,
    <<"-", "5", "0", "0">>, <<"n", "b">> }

RECURSIVE Concat(_)
Concat(pieces) ==
  IF pieces = <<>> THEN <<>> ELSE Head(pieces) \o Concat(Tail(pieces))

ModelStrings ==
  {Concat(ps) : ps \in UNION {[1..n -> ModelPieces] : n \in 0..MaxPieces}}

InitClassify ==
  /\ CoreIdle /\ AuxIdle /\ calls = <<>> /\ tool = NoTool
  /\ pin \in ModelStrings \cup {Null}
  /\ pout = NotApplied

ApplyClassify ==
  /\ ~pout.done
  /\ pout' = Applied(getNotecardTypeFromModel(pin))
  /\ UNCHANGED <<coreVars, pin, calls, tool, auxVars>>

NextClassify == ApplyClassify

SpecClassify == InitClassify /\ [][NextClassify]_vars

\* text t occurs somewhere in model m, letter case respected
Occurs(t, m) ==
  \E i \in 1..Len(m) : i + Len(t) - 1 <= Len(m) /\ SubSeq(m, i, i + Len(t) - 1) = t

NoteNbgl500 ==
  <<"N", "O", "T", "E", "-", "N", "B", "G", "L", "-", "5", "0", "0">>

(***************************************************************************)
(* C16: getNotecardTypeFromModel returns the first code, in the order ""   *)
(* ("500"), "u5" ("NB", "MB", "WB"), "wl" ("LW"), "s3" ("ESP"), one of     *)
(* whose substrings occurs in the model, and null when the model is null,  *)
(* empty or holds none of them; NOTE-NBGL-500 yields "".                   *)
(***************************************************************************)
C16_ClassifyFirstInOrder ==
  pout.done =>
    /\ pout.val =
         ( IF pin = Null \/ pin = <<>> THEN Null
           ELSE IF Occurs(<<"5", "0", "0">>, pin) THEN <<>>
           ELSE IF \/ Occurs(<<"N", "B">>, pin) \/ Occurs(<<"M", "B">>, pin)
                   \/ Occurs(<<"W", "B">>, pin) THEN U5
           ELSE IF Occurs(<<"L", "W">>, pin) THEN WL
           ELSE IF Occurs(<<"E", "S", "P">>, pin) THEN S3
           ELSE Null )
    /\ pin = NoteNbgl500 => pout.val = <<>>

C16_Witness ==
  pout.done /\ pin = NoteNbgl500 /\ pout.val = <<>>

\* listAvailableFirmwareVersions has returned or thrown after a successful
\* fetch
ListServed == pc = "done" /\ op = "list" /\ fetched.kind = "ok"

(***************************************************************************)
(* C17: after a successful fetch listAvailableFirmwareVersions returns     *)
(* (never throws) exactly the Versions of the keys holding the token       *)
(* -<hardwareType>-, each Version once: none comes from a key of another   *)
(* hardware type only, no two returned Versions are equal, and the result  *)
(* is empty when the listing is empty or no key holds the token.           *)
(***************************************************************************)
C17_ListVersionsOfFilteredKeys ==
  ListServed =>
    /\ result.kind = "versions"
    /\ {result.versions[k] : k \in 1..Len(result.versions)}
         = {VersionAt(i) : i \in VersionedIdx}
    /\ \A k, l \in 1..Len(result.versions) :
         compareVersions(result.versions[k], result.versions[l]) = 0 => k = l
    /\ FilteredIdx = {} => result.versions = <<>>

(***************************************************************************)
(* Several calls of findFirmwareUrl and listAvailableFirmwareVersions in   *)
(* flight at once.  A call owns its parameters and locals (firmware.ts has *)
(* no module-level binding besides its functions, and both regular         *)
(* expressions are built inside the helper that uses them); it is          *)
(* suspended at its one await and, once resumed, runs to its return or     *)
(* throw without interruption.  calls[c] is the frame of call c.           *)
(***************************************************************************)
CallIds == 1..MaxCalls

IdleFrame ==
  [pc |-> "idle", op |-> "none", req |-> NoReq, fetched |-> NotFetched,
   xml |-> <<>>, result |-> NoResult]

ConcRequests ==
  { [op |-> "find", req |-> [updateType |-> "LTS", notecardType |-> U5,
                             versionToUse |-> Latest, currentVersion |-> Null]],
    [op |-> "find", req |-> [updateType |-> "nightly", notecardType |-> U5,
                             versionToUse |-> V_1_2_0_9,
                             currentVersion |-> V_1_2_0_10]],
    [op |-> "list", req |-> [NoReq EXCEPT !.updateType = "LTS", !.notecardType = U5]],
    [op |-> "list", req |-> [NoReq EXCEPT !.updateType = "DevRel", !.notecardType = WL]] }

ConcListings ==
  { <<>>,
    <<KeyOf(U5, V_1_2_0_9, DotBin), KeyOf(U5, V_1_2_0_10, DotDfu)>>,
    <<KeyOf(WL, V_1_2_0_10, DotBin)>> }

\* variant: the arguments live in one slot shared by the calls in flight
ArgsOf_SharedSlot(cs, c) ==
  cs[CHOOSE d \in DOMAIN cs : cs[d].pc # "idle"].req

\* the parameters of invocation c (firmware.ts 41-44, 109-114)
ArgsOf(cs, c) == cs[c].req

\* the code after the await, for either operation
BodyOf(o, firmwareIndexXml, r) ==
  IF o = "find" THEN findFirmwareUrlBody(firmwareIndexXml, r)
  ELSE listAvailableFirmwareVersionsBody(firmwareIndexXml, r)

WrapperOf(o) == IF o = "find" THEN FindWrapper ELSE ListWrapper

InitConc ==
  /\ CoreIdle /\ HelperIdle /\ AuxIdle /\ tool = NoTool
  /\ calls = [c \in CallIds |-> IdleFrame]

\* call c starts and runs to its await
ConcCall(c) ==
  /\ calls[c].pc = "idle"
  /\ \E cr \in ConcRequests :
       calls' = [calls EXCEPT ![c] =
                   [IdleFrame EXCEPT !.pc = "fetching", !.op = cr.op, !.req = cr.req]]
  /\ UNCHANGED <<coreVars, pin, pout, tool, auxVars>>

\* call c is resumed with the listing text and runs to its return or throw
ConcResume(c) ==
  /\ calls[c].pc = "fetching"
  /\ \E keys \in ConcListings :
       calls' = [calls EXCEPT ![c] =
                   [@ EXCEPT !.pc = "done", !.fetched = FetchedOk,
                             !.xml = XmlOf(keys),
                             !.result = BodyOf(calls[c].op, XmlOf(keys), ArgsOf(calls, c))]]
  /\ UNCHANGED <<coreVars, pin, pout, tool, auxVars>>

\* the fetch of call c fails
ConcFetchFails(c) ==
  /\ calls[c].pc = "fetching"
  /\ \E outcome \in FetchFailures :
       calls' = [calls EXCEPT ![c] =
                   [@ EXCEPT !.pc = "done", !.fetched = outcome,
                             !.result = FetchFailureError(WrapperOf(calls[c].op), outcome)]]
  /\ UNCHANGED <<coreVars, pin, pout, tool, auxVars>>

\* the caller of call c has taken its result
ConcEnds(c) ==
  /\ calls[c].pc = "done"
  /\ calls' = [calls EXCEPT ![c] = IdleFrame]
  /\ UNCHANGED <<coreVars, pin, pout, tool, auxVars>>

NextConc ==
  \/ \E c \in CallIds : ConcCall(c)
  \/ \E c \in CallIds : ConcResume(c)
  \/ \E c \in CallIds : ConcFetchFails(c)
  \/ \E c \in CallIds : ConcEnds(c)

SpecConc == InitConc /\ [][NextConc]_vars

\* what a call with frame fr's operation, request and fetch outcome returns
\* or throws when it is the only call there is
ResultAlone(fr) ==
  IF fr.fetched.kind # "ok"
  THEN FetchFailureError(IF fr.op = "find" THEN FindWrapper ELSE ListWrapper,
                         fr.fetched)
  ELSE IF fr.op = "find" THEN findFirmwareUrlBody(fr.xml, fr.req)
  ELSE listAvailableFirmwareVersionsBody(fr.xml, fr.req)

Undefined   == <<"undefined">>
NoChannel   == "undefined"
DevPort     == <<"/dev/ttyACM0">>
NotClassified == <<"not run">>

NoInput ==
  [updateChannel |-> NoChannel, notecardModel |-> Undefined, notecard |-> Undefined,
   updateVersion |-> Undefined, currentVersion |-> Undefined]

IdleTool(port) ==
  [name |-> "none", pc |-> "idle", discoveredNotecardPort |-> port,
   input |-> NoInput, notecardType |-> NotClassified, out |-> "none"]

NoteWbna == <<"N", "O", "T", "E", "-", "W", "B", "N", "A">>
NoteLwl  == <<"N", "O", "T", "E", "-", "L", "W", "L">>
NoteXyz  == <<"N", "O", "T", "E", "-", "X", "Y", "Z">>

\* the model strings a client sends: two known models, an unknown one and
\* the empty string
ToolModels == {NoteWbna, NoteLwl, NoteXyz, <<>>}

\* updateChannel is any string (z.string()); the update tool may omit it
ListChannels   == {"LTS", "nightly", "beta"}
UpdateChannels == {NoChannel, "LTS", "beta"}

\* a || b on strings: b when a is undefined or empty
OrElse(a, b) == IF a = Undefined \/ a = <<>> THEN b ELSE a

\* line 203
validTypes == <<"LTS", "DevRel", "nightly">>

\* line 201: updateChannel || 'LTS'
updateChannelToUseOf(updateChannel) ==
  IF updateChannel = NoChannel \/ updateChannel = "" THEN "LTS" ELSE updateChannel

\* variant: the handler never takes the classification for failed
ClassificationFailed_Never(notecardType) == FALSE

\* lines 175 and 212: notecardType === null
ClassificationFailed(notecardType) == notecardType = Null

\* the handler's call into firmware.ts, up to the resolver's await
CoreCalled(o, r) ==
  /\ pc = "idle"
  /\ op' = o
  /\ req' = r
  /\ pc' = "fetching"
  /\ fetches' = 1
  /\ fetched' = NotFetched
  /\ listing' = <<>>
  /\ xml' = <<>>
  /\ result' = NoResult

InitTools ==
  /\ CoreIdle /\ HelperIdle /\ AuxIdle /\ calls = <<>>
  /\ tool = IdleTool(Null)

\* notecard-find-port (lines 48-87): the port given, the one Notecard
\* found, or none
ToolFindPort ==
  /\ tool.pc = "idle"
  /\ \E port \in {Null, DevPort} : tool' = IdleTool(port)
  /\ UNCHANGED <<coreVars, pin, pout, calls, auxVars>>

\* notecard-list-firmware-versions up to its return of line 176 or its
\* await of line 181
ToolListFirmwareVersions ==
  /\ tool.pc = "idle"
  /\ \E updateChannel \in ListChannels, notecardModel \in ToolModels :
       LET input == [NoInput EXCEPT !.updateChannel = updateChannel,
                                    !.notecardModel = notecardModel]
           notecardType == getNotecardTypeFromModel(notecardModel)
           started == [tool EXCEPT !.name = "list", !.input = input,
                                   !.notecardType = notecardType]
       IN IF ClassificationFailed(notecardType)
          THEN /\ tool' = [started EXCEPT !.pc = "returned",
                                          !.out = "classification error"]
               /\ UNCHANGED coreVars
          ELSE /\ tool' = [started EXCEPT !.pc = "awaiting"]
               /\ CoreCalled("list", [NoReq EXCEPT !.updateType = updateChannel,
                                                   !.notecardType = notecardType])
  /\ UNCHANGED <<pin, pout, calls, auxVars>>

\* notecard-update-firmware up to one of its returns of lines 205, 213,
\* 220 or its await of line 226
ToolUpdateFirmware ==
  /\ tool.pc = "idle"
  /\ \E updateChannel \in UpdateChannels, notecardModel \in ToolModels,
        notecard \in {Undefined, DevPort},
        updateVersion \in {Undefined, V_1_2_0_9},
        currentVersionIn \in {Undefined, V_1_2_0_10} :
       LET input == [updateChannel |-> updateChannel, notecardModel |-> notecardModel,
                     notecard |-> notecard, updateVersion |-> updateVersion,
                     currentVersion |-> currentVersionIn]
           portToUse == OrElse(notecard, tool.discoveredNotecardPort)
           versionToUse == OrElse(updateVersion, Latest)
           currentVersion == OrElse(currentVersionIn, Null)
           updateChannelToUse == updateChannelToUseOf(updateChannel)
           notecardType == getNotecardTypeFromModel(notecardModel)
           started == [tool EXCEPT !.name = "update", !.input = input]
           classified == [started EXCEPT !.notecardType = notecardType]
       IN IF \A k \in 1..Len(validTypes) : validTypes[k] # updateChannelToUse
          THEN /\ tool' = [started EXCEPT !.pc = "returned",
                                          !.out = "invalid update type"]
               /\ UNCHANGED coreVars
          ELSE IF ClassificationFailed(notecardType)
          THEN /\ tool' = [classified EXCEPT !.pc = "returned",
                                             !.out = "classification error"]
               /\ UNCHANGED coreVars
          ELSE IF portToUse = Null
          THEN /\ tool' = [classified EXCEPT !.pc = "returned",
                                             !.out = "no port"]
               /\ UNCHANGED coreVars
          ELSE /\ tool' = [classified EXCEPT !.pc = "awaiting"]
               /\ CoreCalled("find",
                    [updateType |-> updateChannelToUse, notecardType |-> notecardType,
                     versionToUse |-> versionToUse, currentVersion |-> currentVersion])
  /\ UNCHANGED <<pin, pout, calls, auxVars>>

\* notecard-list-firmware-versions from line 181 on: the versions are
\* returned; an error of the resolver is not caught and leaves the handler
ToolListReturns ==
  /\ tool.pc = "awaiting" /\ tool.name = "list" /\ pc = "done"
  /\ tool' = [tool EXCEPT !.pc = "returned",
                          !.out = IF result.kind = "versions" THEN "versions"
                                  ELSE "thrown"]
  /\ UNCHANGED <<coreVars, pin, pout, calls, auxVars>>

\* notecard-update-firmware from line 226 on: up to date (228-230), the
\* download and the spawn of the notecard CLI, which start the update
\* (232-270) or fail (272-282), or the resolver's error (284-289)
ToolUpdateReturns ==
  /\ tool.pc = "awaiting" /\ tool.name = "update" /\ pc = "done"
  /\ \E started \in BOOLEAN :
       tool' = [tool EXCEPT !.pc = "returned",
                  !.out = IF result.kind = "null" THEN "up to date"
                          ELSE IF result.kind = "error" THEN "error preparing update"
                          ELSE IF started THEN "update started"
                          ELSE "error starting update"]
  /\ UNCHANGED <<coreVars, pin, pout, calls, auxVars>>

\* the client has the reply; the handler's and the resolver's locals are
\* gone, discoveredNotecardPort stays
ToolEnds ==
  /\ tool.pc = "returned"
  /\ tool' = IdleTool(tool.discoveredNotecardPort)
  /\ pc' = "idle"
  /\ op' = "none"
  /\ req' = NoReq
  /\ fetches' = 0
  /\ fetched' = NotFetched
  /\ listing' = <<>>
  /\ xml' = <<>>
  /\ result' = NoResult
  /\ UNCHANGED <<pin, pout, calls, auxVars>>

NextTools ==
  \/ ToolFindPort
  \/ ToolListFirmwareVersions
  \/ ToolUpdateFirmware
  \/ FindFirmwareUrlResume
  \/ FindFirmwareUrlFetchFails
  \/ ListResume
  \/ ListFetchFails
  \/ ToolListReturns
  \/ ToolUpdateReturns
  \/ ToolEnds

SpecTools == InitTools /\ [][NextTools]_vars

\* the model of the running tool call holds none of the substrings of a
\* known hardware type
ModelUnknown ==
  \A t \in { <<"5", "0", "0">>, <<"N", "B">>, <<"M", "B">>, <<"W", "B">>,
             <<"L", "W">>, <<"E", "S", "P">> } :
    ~Occurs(t, tool.input.notecardModel)

\* the running tool call was given a channel outside the closed set
ChannelInvalid ==
  /\ tool.input.updateChannel \notin {"LTS", "DevRel", "nightly"}
  /\ ~(tool.name = "update" /\ tool.input.updateChannel = NoChannel)

(***************************************************************************)
(* C19: a listing fetch is issued only by a tool call whose model was      *)
(* classified, for the hardware type the classification gave; a call of    *)
(* notecard-update-firmware (its channel accepted) or of                   *)
(* notecard-list-firmware-versions whose model matches no known hardware   *)
(* type replies with the classification error, and no call with such a     *)
(* model has issued a fetch when it replies.                               *)
(***************************************************************************)
C19_NoFetchWithoutClassification ==
  /\ fetches > 0 =>
       /\ tool.pc \in {"awaiting", "returned"}
       /\ ~ModelUnknown
       /\ tool.notecardType \notin {Null, NotClassified}
       /\ req.notecardType = tool.notecardType
  /\ (tool.pc = "returned" /\ ModelUnknown) =>
       /\ fetches = 0 /\ pc = "idle"
       /\ ~ChannelInvalid => tool.out = "classification error"

\* notecard-update-firmware called with a valid channel, a port and an
\* unknown model has replied
C19_Witness ==
  /\ tool.pc = "returned" /\ tool.name = "update"
  /\ tool.input.notecardModel = NoteXyz /\ tool.input.notecard = DevPort
  /\ tool.input.updateChannel = "LTS"
  /\ tool.out = "classification error" /\ fetches = 0

(***************************************************************************)
(* C20: whenever a tool call has invoked findFirmwareUrl or                *)
(* listAvailableFirmwareVersions, the channel it passed is LTS, DevRel or  *)
(* nightly; a tool call given another channel replies with the invalid     *)
(* update type error and has issued no fetch.                              *)
(***************************************************************************)
C20_ChannelValidatedAtBoundary ==
  /\ op # "none" => req.updateType \in {"LTS", "DevRel", "nightly"}
  /\ (tool.pc = "returned" /\ ChannelInvalid) =>
       /\ tool.out = "invalid update type"
       /\ fetches = 0

(***************************************************************************)
(* C21: whenever findFirmwareUrl or listAvailableFirmwareVersions has      *)
(* failed (fetch failure, no artifacts for the hardware type, version not  *)
(* found, no valid versions), the handler that called it returns a reply   *)
(* to the client: for notecard-update-firmware the error preparing the     *)
(* update, for notecard-list-firmware-versions a reply as well, and in no  *)
(* case does the error leave the handler uncaught.                         *)
(***************************************************************************)
C21_FailuresAreReturned ==
  (tool.pc = "returned" /\ result.kind = "error") =>
    /\ tool.out # "thrown"
    /\ tool.name = "update" => tool.out = "error preparing update"

(***************************************************************************)
(* Progress of one call.  What the program itself is bound to do is to     *)
(* hand over a result it has; when the storage service answers, and        *)
(* whether it does, is not the program's to decide: fetch is called with   *)
(* the URL alone (firmware.ts 49, 119), without signal or timer, and       *)
(* neither function has a timeout parameter, so nothing in the call        *)
(* forces the await to end.                                                *)
(***************************************************************************)
SpecLive == Init /\ [][Next]_vars /\ WF_vars(CallEnds)

(***************************************************************************)
(* C22: every call of findFirmwareUrl and listAvailableFirmwareVersions    *)
(* that is waiting for the bucket listing eventually ends, with a result   *)
(* or an error, even when the fetch never completes.                       *)
(***************************************************************************)
C22_CallEventuallyReturns == (pc = "fetching") ~> (pc = "done")

(***************************************************************************)
(* The request validator (schema.ts): validateNotecardRequest,             *)
(* ensureInitialized and initializeSchemaValidation, with the module       *)
(* variables ajv, validate and schemaFetchPromise.  Several calls of       *)
(* validateNotecardRequest may be in flight; each suspends at its awaits   *)
(* and a continuation runs without interruption up to the next await.      *)
(*   schema.ajv, schema.validate   TRUE when the variable is not null      *)
(*   schema.schemaFetchPromise     0 for null, else the promise's number   *)
(*   schema.inits[p]   the run of initializeSchemaValidation behind        *)
(*                     promise p: "none", "fetching" (await of fetch),     *)
(*                     "parsing" (await of response.json()), "fulfilled",  *)
(*                     "rejected", and the error it rejected with          *)
(*   schema.callers[c] the call c of validateNotecardRequest: "idle",      *)
(*                     "awaiting" promise p inside ensureInitialized,      *)
(*                     "ensured" (ensureInitialized has settled),          *)
(*                     "returned"                                          *)
(***************************************************************************)
CallerIds == 1..MaxCallers
InitIds   == 1..MaxInits

NoError  == ""
NoReply  == [settled |-> "no", valid |-> FALSE, defined |-> FALSE, errors |-> <<>>]
NoInit   == [pc |-> "none", error |-> NoError]
IdleCaller ==
  [pc |-> "idle", requestJson |-> "", awaited |-> 0, error |-> NoError,
   reply |-> NoReply]

\* request strings, by what JSON.parse and the compiled schema make of them
RequestJsons ==
  { [text |-> "{\"req\":\"card.version\"}",  parses |-> TRUE,  conforms |-> TRUE],
    [text |-> "{\"file\":\"data.qo\"}",      parses |-> TRUE,  conforms |-> FALSE],
    [text |-> "{\"req\":\"card.version\",}", parses |-> FALSE, conforms |-> FALSE] }

RequestOf(text) == CHOOSE r \in RequestJsons : r.text = text

\* line 367: the returned object has no errors property (defined FALSE)
ValidReply ==
  [settled |-> "resolved", valid |-> TRUE, defined |-> FALSE, errors |-> <<>>]

\* line 369: validate.errors, not empty after a failed validation
InvalidReply ==
  [settled |-> "resolved", valid |-> FALSE, defined |-> TRUE,
   errors |-> << [message |-> "must have required property 'req'", cause |-> ""] >>]

\* lines 371-374
ProcessErrorReply(error) ==
  [settled |-> "resolved", valid |-> FALSE, defined |-> TRUE,
   errors |-> << [message |-> "Validation process error: ", cause |-> error] >>]

\* variant: the parse error is left to the outer catch
InvalidJsonReply_OuterCatch(parseError) == ProcessErrorReply(parseError)

\* lines 358-362
InvalidJsonReply(parseError) ==
  [settled |-> "resolved", valid |-> FALSE, defined |-> TRUE,
   errors |-> << [message |-> "Invalid JSON: ", cause |-> parseError] >>]

\* !ajv || !validate (lines 327, 336, 351)
NotInitialized(sc) == ~sc.ajv \/ ~sc.validate

\* variant: a fetch is started whatever the marker says
FetchInProgress_Ignored(sc) == FALSE

\* line 328: schemaFetchPromise is not null
FetchInProgress(sc) == sc.schemaFetchPromise # 0

\* the promises initializeSchemaValidation has not returned yet
FreshInits(sc) == {p \in InitIds : sc.inits[p].pc = "none"}

InitSchema ==
  /\ CoreIdle /\ HelperIdle /\ calls = <<>> /\ tool = NoTool /\ ports = NoPorts
  /\ schema = [ajv |-> FALSE, validate |-> FALSE, schemaFetchPromise |-> 0,
               inits |-> [p \in InitIds |-> NoInit],
               callers |-> [c \in CallerIds |-> IdleCaller]]

\* validateNotecardRequest and ensureInitialized up to the await of line
\* 333 (initializeSchemaValidation having run to its await of line 301
\* when the call starts it), or up to ensureInitialized's return when the
\* validator is there
ValidateCall(c) ==
  /\ schema.callers[c].pc = "idle"
  /\ \E r \in RequestJsons :
       LET started == [IdleCaller EXCEPT !.requestJson = r.text]
       IN IF ~NotInitialized(schema)
          THEN schema' = [schema EXCEPT !.callers[c] =
                            [started EXCEPT !.pc = "ensured"]]
          ELSE IF FetchInProgress(schema)
          THEN schema' = [schema EXCEPT !.callers[c] =
                            [started EXCEPT !.pc = "awaiting",
                                            !.awaited = schema.schemaFetchPromise]]
          ELSE /\ FreshInits(schema) # {}
               /\ LET p == CHOOSE q \in FreshInits(schema) :
                             \A o \in FreshInits(schema) : q <= o
                  IN schema' = [schema EXCEPT
                       !.inits[p] = [NoInit EXCEPT !.pc = "fetching"],
                       !.schemaFetchPromise = p,
                       !.callers[c] = [started EXCEPT !.pc = "awaiting",
                                                      !.awaited = p]]
  /\ UNCHANGED <<coreVars, pin, pout, calls, tool, ports>>

\* initializeSchemaValidation: the response is there and is ok (301-304)
InitFetched(p) ==
  /\ schema.inits[p].pc = "fetching"
  /\ schema' = [schema EXCEPT !.inits[p].pc = "parsing"]
  /\ UNCHANGED <<coreVars, pin, pout, calls, tool, ports>>

\* initializeSchemaValidation: the body is parsed and the schema compiles
\* (305-313)
InitCompiled(p) ==
  /\ schema.inits[p].pc = "parsing"
  /\ schema' = [schema EXCEPT !.ajv = TRUE, !.validate = TRUE,
                              !.inits[p].pc = "fulfilled"]
  /\ UNCHANGED <<coreVars, pin, pout, calls, tool, ports>>

\* initializeSchemaValidation fails: fetch rejects or the status is not ok
\* (301-303), the body is not JSON (305), or ajv.compile throws (312); the
\* catch of lines 315-322 runs
InitFails(p) ==
  /\ \E error \in {"Failed to fetch schema: 404", "schema is invalid"} :
       /\ schema.inits[p].pc =
            (IF error = "Failed to fetch schema: 404" THEN "fetching" ELSE "parsing")
       /\ schema' = [schema EXCEPT !.ajv = FALSE, !.validate = FALSE,
                                   !.schemaFetchPromise = 0,
                                   !.inits[p] = [pc |-> "rejected", error |-> error]]
  /\ UNCHANGED <<coreVars, pin, pout, calls, tool, ports>>

\* ensureInitialized after its await (lines 333-338)
EnsureResumes(c) ==
  LET me == schema.callers[c]
      awaited == schema.inits[me.awaited]
  IN /\ me.pc = "awaiting"
     /\ awaited.pc \in {"fulfilled", "rejected"}
     /\ schema' = [schema EXCEPT !.callers[c] =
          [me EXCEPT !.pc = "ensured",
                     !.error = IF awaited.pc = "rejected" THEN awaited.error
                               ELSE IF NotInitialized(schema)
                               THEN "Schema validation initialization failed."
                               ELSE NoError]]
     /\ UNCHANGED <<coreVars, pin, pout, calls, tool, ports>>

\* validateNotecardRequest after its await (lines 348-374)
ValidateResumes(c) ==
  LET me == schema.callers[c]
      r == RequestOf(me.requestJson)
  IN /\ me.pc = "ensured"
     /\ schema' = [schema EXCEPT !.callers[c] =
          [me EXCEPT !.pc = "returned",
                     !.reply =
                        IF me.error # NoError THEN ProcessErrorReply(me.error)
                        ELSE IF NotInitialized(schema)
                        THEN ProcessErrorReply(
                               "Schema validation components are not initialized.")
                        ELSE IF ~r.parses THEN InvalidJsonReply("Unexpected token")
                        ELSE IF r.conforms THEN ValidReply
                        ELSE InvalidReply]]
     /\ UNCHANGED <<coreVars, pin, pout, calls, tool, ports>>

\* the caller has the reply
ValidateEnds(c) ==
  /\ schema.callers[c].pc = "returned"
  /\ schema' = [schema EXCEPT !.callers[c] = IdleCaller]
  /\ UNCHANGED <<coreVars, pin, pout, calls, tool, ports>>

NextSchema ==
  \/ \E c \in CallerIds : ValidateCall(c)
  \/ \E p \in InitIds : InitFetched(p)
  \/ \E p \in InitIds : InitCompiled(p)
  \/ \E p \in InitIds : InitFails(p)
  \/ \E c \in CallerIds : EnsureResumes(c)
  \/ \E c \in CallerIds : ValidateResumes(c)
  \/ \E c \in CallerIds : ValidateEnds(c)

SpecSchema == InitSchema /\ [][NextSchema]_vars

\* the initialization call c waited for has failed
InitFailedFor(c) ==
  /\ schema.callers[c].awaited # 0
  /\ schema.inits[schema.callers[c].awaited].pc = "rejected"

\* call c has returned a well-formed reply: resolved, and valid without
\* errors or not valid with errors
WellFormedReply(c) ==
  LET reply == schema.callers[c].reply
  IN /\ reply.settled = "resolved"
     /\ reply.valid => ~reply.defined
     /\ ~reply.valid => reply.defined /\ Len(reply.errors) >= 1

FirstMessage(c) == schema.callers[c].reply.errors[1].message

Unparseable(c) == ~RequestOf(schema.callers[c].requestJson).parses

(***************************************************************************)
(* C23 as stated: validateNotecardRequest never rejects and resolves to    *)
(* valid without errors or not valid with errors; unparseable JSON gives   *)
(* not valid with a first message "Invalid JSON", whatever the outcome of  *)
(* the initialization, and a failed initialization gives not valid with a  *)
(* "Validation process error" message.                                     *)
(***************************************************************************)
C23_AsStated ==
  \A c \in CallerIds :
    schema.callers[c].pc = "returned" =>
      /\ WellFormedReply(c)
      /\ Unparseable(c) =>
           ~schema.callers[c].reply.valid /\ FirstMessage(c) = "Invalid JSON: "
      /\ InitFailedFor(c) =>
           /\ ~schema.callers[c].reply.valid
           /\ FirstMessage(c) = "Validation process error: "

(***************************************************************************)
(* C23, amended: validateNotecardRequest never rejects and resolves to     *)
(* valid without errors or not valid with errors; a failed initialization  *)
(* gives not valid with a "Validation process error" message whatever the  *)
(* input; when the initialization has succeeded, unparseable JSON gives    *)
(* not valid with a first message "Invalid JSON", and a parseable request  *)
(* is valid exactly when it conforms to the schema.                        *)
(***************************************************************************)
C23_ValidateNeverRejects ==
  \A c \in CallerIds :
    schema.callers[c].pc = "returned" =>
      /\ WellFormedReply(c)
      /\ InitFailedFor(c) =>
           /\ ~schema.callers[c].reply.valid
           /\ FirstMessage(c) = "Validation process error: "
      /\ (~InitFailedFor(c) /\ Unparseable(c)) =>
           ~schema.callers[c].reply.valid /\ FirstMessage(c) = "Invalid JSON: "
      /\ (~InitFailedFor(c) /\ ~Unparseable(c)) =>
           schema.callers[c].reply.valid
             = RequestOf(schema.callers[c].requestJson).conforms

\* one call has returned "Invalid JSON" after a successful initialization,
\* another the process error after a failed one
C23_Witness ==
  \E c, d \in CallerIds :
    /\ schema.callers[c].pc = "returned" /\ schema.callers[d].pc = "returned"
    /\ Unparseable(c) /\ ~InitFailedFor(c) /\ FirstMessage(c) = "Invalid JSON: "
    /\ InitFailedFor(d) /\ FirstMessage(d) = "Validation process error: "

\* the initializations whose fetch or parse is under way in state sc
InFlight(sc) == {p \in InitIds : sc.inits[p].pc \in {"fetching", "parsing"}}

Succeeded(sc) == {p \in InitIds : sc.inits[p].pc = "fulfilled"}

\* single flight, one initialization shared, none after a success, marker
\* cleared by a failure
SingleFlight ==
  /\ Cardinality(InFlight(schema)) <= 1
  /\ \A c \in CallerIds :
       ( /\ schema.callers[c].pc = "awaiting"
         /\ schema.callers[c].awaited \notin Succeeded(schema)
         /\ schema.inits[schema.callers[c].awaited].pc # "rejected" ) =>
         /\ schema.callers[c].awaited = schema.schemaFetchPromise
         /\ InFlight(schema) = {schema.callers[c].awaited}
  /\ \A p \in Succeeded(schema) :
       /\ InFlight(schema) = {}
       /\ \A q \in InitIds : q > p => schema.inits[q].pc = "none"
  /\ schema.schemaFetchPromise # 0 =>
       schema.inits[schema.schemaFetchPromise].pc # "rejected"
  /\ (InFlight(schema) = {} /\ Succeeded(schema) = {}) =>
       schema.schemaFetchPromise = 0

\* a call that arrives starts a fetch exactly when none has succeeded and
\* none is in flight, and then waits for the one in flight
ArrivalStep ==
  \A c \in CallerIds :
    (schema.callers[c].pc = "idle" /\ schema'.callers[c].pc # "idle") =>
      /\ (InFlight(schema') # InFlight(schema))
           <=> (InFlight(schema) = {} /\ Succeeded(schema) = {})
      /\ Succeeded(schema) = {} =>
           /\ schema'.callers[c].pc = "awaiting"
           /\ InFlight(schema') = {schema'.callers[c].awaited}
      /\ Succeeded(schema) # {} => schema'.callers[c].pc = "ensured"

(***************************************************************************)
(* C24: with any number of validateNotecardRequest calls interleaved, at   *)
(* most one schema initialization is in flight, every caller that arrives  *)
(* during it waits for that same initialization, no call starts a fetch    *)
(* once an initialization has succeeded, and after a failed initialization *)
(* the marker is cleared, so that the next call to arrive starts a new     *)
(* fetch.                                                                  *)
(***************************************************************************)
C24_SingleFlightRetryable == []SingleFlight /\ [][ArrivalStep]_vars

\* a first initialization has failed, a second one is in flight, and two
\* callers wait for the second
C24_Witness ==
  /\ schema.inits[1].pc = "rejected" /\ schema.inits[2].pc = "parsing"
  /\ \A c \in CallerIds :
       schema.callers[c].pc = "awaiting" /\ schema.callers[c].awaited = 2

(***************************************************************************)
(* The stored serial port (index.ts 16) and the tools around it:           *)
(* notecard-find-port (42-88), which writes it, notecard-request (91-157)  *)
(* and notecard-update-firmware (186-291), which read it.  The server      *)
(* starts a handler for each request as it arrives, so calls of            *)
(* notecard-find-port overlap with each other and with a call that uses    *)
(* the port; a handler runs without interruption between its awaits.       *)
(*   ports.discoveredNotecardPort   line 16                                *)
(*   ports.finds[f]  call f of notecard-find-port: "idle", "scanning"      *)
(*                   (await of SerialPort.list()), "returned"; its port    *)
(*                   argument and what the scan gave                       *)
(*   ports.use       the call of notecard-request or of                    *)
(*                   notecard-update-firmware: "idle", "running" (await of *)
(*                   the command or of findFirmwareUrl), "returned"; its   *)
(*                   portToUse, the commands it ran and the listing        *)
(*                   fetches it issued                                     *)
(***************************************************************************)
FindIds == 1..MaxFinds

PortA == <<"/dev/ttyACM0">>
PortB == <<"/dev/ttyUSB1">>

NoScan    == [kind |-> "none", list |-> <<>>]
ScanError == [kind |-> "error", list |-> <<>>]

\* what SerialPort.list() resolves to: ports with their vendorId
SerialLists ==
  { <<>>,
    << [path |-> PortB, vendorId |-> <<"3", "0", "a", "4">>] >>,
    << [path |-> PortA, vendorId |-> <<"2", "3", "4", "1">>],
       [path |-> PortB, vendorId |-> <<"3", "0", "A", "4">>] >>,
    << [path |-> PortA, vendorId |-> Undefined] >>,
    << [path |-> PortA, vendorId |-> <<"3", "0", "a", "4">>],
       [path |-> PortB, vendorId |-> <<"3", "0", "a", "4">>] >> }

\* String.prototype.toLowerCase on the hexadecimal digits
toLowerCase(str) ==
  [i \in 1..Len(str) |->
     CASE str[i] = "A" -> "a" [] str[i] = "B" -> "b" [] str[i] = "C" -> "c"
       [] str[i] = "D" -> "d" [] str[i] = "E" -> "e" [] str[i] = "F" -> "f"
       [] OTHER -> str[i]]

notecardVID == <<"3", "0", "a", "4">>

RECURSIVE notecardPortsOf(_)
\* lines 62-64: the ports whose vendorId is there and is 30a4
notecardPortsOf(list) ==
  IF list = <<>> THEN <<>>
  ELSE (IF /\ Head(list).vendorId # Undefined
           /\ toLowerCase(Head(list).vendorId) = notecardVID
        THEN <<Head(list)>> ELSE <<>>) \o notecardPortsOf(Tail(list))

IdleFind == [pc |-> "idle", port |-> Undefined, scan |-> NoScan]
IdleUse ==
  [pc |-> "idle", name |-> "none", notecard |-> Undefined,
   updateChannel |-> NoChannel, notecardModel |-> Undefined, stored |-> Null,
   portToUse |-> Null, out |-> "none", commands |-> <<>>, fetches |-> 0]

InitPorts ==
  /\ CoreIdle /\ HelperIdle /\ calls = <<>> /\ tool = NoTool /\ schema = NoSchema
  /\ ports = [discoveredNotecardPort |-> Null,
              finds |-> [f \in FindIds |-> IdleFind],
              use |-> IdleUse]

\* line 49: discoveredNotecardPort = null
ResetAtStart(stored) == Null

\* notecard-find-port up to its return of line 54 or its await of line 58
FindPortCall(f) ==
  /\ ports.finds[f].pc = "idle"
  /\ \E port \in {Undefined, PortA} :
       IF port # Undefined
       THEN ports' = [ports EXCEPT
              !.discoveredNotecardPort = port,
              !.finds[f] = [IdleFind EXCEPT !.pc = "returned", !.port = port]]
       ELSE ports' = [ports EXCEPT
              !.discoveredNotecardPort = ResetAtStart(@),
              !.finds[f] = [IdleFind EXCEPT !.pc = "scanning"]]
  /\ UNCHANGED <<coreVars, pin, pout, calls, tool, schema>>

\* notecard-find-port from line 58 to its return: one Notecard found and
\* stored (66-70), none (71-73), several (74-79), or the scan failed (82-86)
FindPortScanned(f) ==
  /\ ports.finds[f].pc = "scanning"
  /\ \E scan \in {[kind |-> "list", list |-> l] : l \in SerialLists}
                   \cup {ScanError} :
       LET notecardPorts == notecardPortsOf(scan.list)
       IN ports' = [ports EXCEPT
            !.discoveredNotecardPort =
               IF Len(notecardPorts) = 1 THEN notecardPorts[1].path ELSE @,
            !.finds[f] = [@ EXCEPT !.pc = "returned", !.scan = scan]]
  /\ UNCHANGED <<coreVars, pin, pout, calls, tool, schema>>

\* the client has the reply of notecard-find-port
FindPortEnds(f) ==
  /\ ports.finds[f].pc = "returned"
  /\ ports' = [ports EXCEPT !.finds[f] = IdleFind]
  /\ UNCHANGED <<coreVars, pin, pout, calls, tool, schema>>

\* notecard-request up to its return of line 103 or its await of line 121
RequestCall ==
  /\ ports.use.pc = "idle"
  /\ \E notecard \in {Undefined, PortA} :
       LET portToUse == OrElse(notecard, ports.discoveredNotecardPort)
           started == [IdleUse EXCEPT !.name = "request", !.notecard = notecard,
                                      !.stored = ports.discoveredNotecardPort,
                                      !.portToUse = portToUse]
       IN ports' = [ports EXCEPT !.use =
            IF portToUse = Null
            THEN [started EXCEPT !.pc = "returned", !.out = "no port"]
            ELSE [started EXCEPT !.pc = "running",
                                 !.commands = <<[port |-> portToUse]>>]]
  /\ UNCHANGED <<coreVars, pin, pout, calls, tool, schema>>

\* notecard-request from line 121 on: the reply of the Notecard, or one of
\* the errors of lines 123-156
RequestReturns ==
  /\ ports.use.pc = "running" /\ ports.use.name = "request"
  /\ \E out \in {"response", "command error"} :
       ports' = [ports EXCEPT !.use = [@ EXCEPT !.pc = "returned", !.out = out]]
  /\ UNCHANGED <<coreVars, pin, pout, calls, tool, schema>>

\* notecard-update-firmware up to one of its returns of lines 205, 213,
\* 220 or its await of line 226
UpdateCall ==
  /\ ports.use.pc = "idle"
  /\ \E notecard \in {Undefined, PortA}, updateChannel \in {"LTS", "beta"},
        notecardModel \in {NoteWbna, NoteXyz} :
       LET portToUse == OrElse(notecard, ports.discoveredNotecardPort)
           started == [IdleUse EXCEPT !.name = "update", !.notecard = notecard,
                                      !.updateChannel = updateChannel,
                                      !.notecardModel = notecardModel,
                                      !.stored = ports.discoveredNotecardPort,
                                      !.portToUse = portToUse]
       IN ports' = [ports EXCEPT !.use =
            IF \A k \in 1..Len(validTypes) :
                 validTypes[k] # updateChannelToUseOf(updateChannel)
            THEN [started EXCEPT !.pc = "returned", !.out = "invalid update type"]
            ELSE IF ClassificationFailed(getNotecardTypeFromModel(notecardModel))
            THEN [started EXCEPT !.pc = "returned", !.out = "classification error"]
            ELSE IF portToUse = Null
            THEN [started EXCEPT !.pc = "returned", !.out = "no port"]
            ELSE [started EXCEPT !.pc = "running", !.fetches = 1]]
  /\ UNCHANGED <<coreVars, pin, pout, calls, tool, schema>>

\* notecard-update-firmware from line 226 on: up to date (228-230), the
\* resolver's error (284-289), the download failed before the spawn
\* (232-237, 272-282), or the notecard CLI spawned on portToUse (239-270)
UpdateReturns ==
  /\ ports.use.pc = "running" /\ ports.use.name = "update"
  /\ \E out \in {"up to date", "error preparing update",
                 "error starting update", "update started"} :
       ports' = [ports EXCEPT !.use =
         [@ EXCEPT !.pc = "returned", !.out = out,
                   !.commands = IF out = "update started"
                                THEN <<[port |-> ports.use.portToUse]>> ELSE <<>>]]
  /\ UNCHANGED <<coreVars, pin, pout, calls, tool, schema>>

\* the client has the reply of the call that used the port
UseEnds ==
  /\ ports.use.pc = "returned"
  /\ ports' = [ports EXCEPT !.use = IdleUse]
  /\ UNCHANGED <<coreVars, pin, pout, calls, tool, schema>>

NextPorts ==
  \/ \E f \in FindIds : FindPortCall(f)
  \/ \E f \in FindIds : FindPortScanned(f)
  \/ \E f \in FindIds : FindPortEnds(f)
  \/ RequestCall
  \/ RequestReturns
  \/ UpdateCall
  \/ UpdateReturns
  \/ UseEnds

SpecPorts == InitPorts /\ [][NextPorts]_vars

\* a vendor id that reads 30a4, in either letter case
Is30a4(vendorId) ==
  /\ vendorId # Undefined /\ Len(vendorId) = 4
  /\ vendorId[1] = "3" /\ vendorId[2] = "0"
  /\ vendorId[3] \in {"a", "A"} /\ vendorId[4] = "4"

\* the port a finished call of notecard-find-port is to leave stored
ExpectedStored(find) ==
  LET hits == {i \in 1..Len(find.scan.list) : Is30a4(find.scan.list[i].vendorId)}
  IN IF find.port # Undefined THEN find.port
     ELSE IF find.scan.kind = "list" /\ Cardinality(hits) = 1
     THEN find.scan.list[CHOOSE i \in hits : TRUE].path
     ELSE Null

\* a call of notecard-find-port completes and leaves its own port stored
FindCompletesStep ==
  \A f \in FindIds :
    (ports.finds[f].pc # "returned" /\ ports'.finds[f].pc = "returned") =>
      ports'.discoveredNotecardPort = ExpectedStored(ports'.finds[f])

\* a call that uses the port starts: its own argument, else the stored
\* port; with neither, the port-missing error (for the update tool, once
\* channel and model are accepted) and nothing run or fetched
UseStartsStep ==
  (ports.use.pc = "idle" /\ ports'.use.pc # "idle") =>
    LET use == ports'.use
    IN /\ use.portToUse = IF use.notecard # Undefined THEN use.notecard
                          ELSE ports.discoveredNotecardPort
       /\ (use.notecard = Undefined /\ ports.discoveredNotecardPort = Null) =>
            /\ use.pc = "returned" /\ use.commands = <<>> /\ use.fetches = 0
            /\ ( \/ use.name = "request"
                 \/ /\ use.updateChannel \in {"LTS", "DevRel", "nightly"}
                    /\ use.notecardModel = NoteWbna ) => use.out = "no port"

\* whatever is in flight, a command runs on the call's port, and a call
\* without a port has run no command and issued no fetch
UsesItsPort ==
  /\ \A k \in 1..Len(ports.use.commands) :
       ports.use.commands[k].port = ports.use.portToUse
  /\ ports.use.portToUse = Null =>
       ports.use.commands = <<>> /\ ports.use.fetches = 0

(***************************************************************************)
(* C25: when a call of notecard-find-port completes, the stored port is    *)
(* the port it was given, else the path of the single port with vendor id  *)
(* 30a4 its scan found, else null (no match, several matches, scan error), *)
(* no port stored by an earlier call being retained; a call of             *)
(* notecard-request or notecard-update-firmware uses its own notecard      *)
(* argument when given and the stored port otherwise, and with neither     *)
(* returns the port-missing error without running a command or issuing a   *)
(* fetch, also while a scan is in flight.                                  *)
(***************************************************************************)
C25_StoredPort ==
  []UsesItsPort /\ [][FindCompletesStep /\ UseStartsStep]_vars
====
